---- MODULE Spec2Model ----
(***************************************************************************)
(* The webhook-driven synchronisation pipeline of pluggy-connect-token:    *)
(* the HTTP webhook endpoint (src/api/webhook.ts), the dispatcher and the  *)
(* handlers of src/lib/services/webhooks/webhook.ts (SDK revision, lines   *)
(* 1-604), the provider client probe (src/lib/pluggyClient.ts) and the     *)
(* persistence services (upserts and deletes by natural key).              *)
(*                                                                         *)
(* One step of the model is one awaited external call (a provider fetch or *)
(* a persistence call) together with the synchronous code that follows it  *)
(* up to the next await.  Invocations of the endpoint interleave at these  *)
(* await points only.                                                      *)
(***************************************************************************)
EXTENDS Integers, Sequences, FiniteSets, Bags, TLC

\* ------------------------------------------------------------------ bounds
MaxRequests == 2
MaxFaults == 1
MaxDay == 2
MaxCalls == 3

None == "none"
Slots == {1, 2}

\* ------------------------------------------------- the dispatch table tags
\* src/lib/types.ts, WebhookEventType
WebhookEventType ==
  { "item/created", "item/updated", "item/deleted", "item/error",
    "item/waiting_user_input", "item/login_succeeded",
    "connector/status_updated",
    "transactions/deleted", "transactions/created", "transactions/updated",
    "payment_intent/created", "payment_intent/completed",
    "payment_intent/waiting_payer_authorization", "payment_intent/error",
    "scheduled_payment/created", "scheduled_payment/completed",
    "scheduled_payment/error", "scheduled_payment/canceled",
    "payment_refund/completed", "payment_refund/error",
    "payment_request/updated",
    "automatic_pix_payment/created", "automatic_pix_payment/completed",
    "automatic_pix_payment/error", "automatic_pix_payment/canceled" }

UnknownEvent == "unknown/event"

\* the case labels of the switch of processWebhookEvent, one entry per
\* group of labels that shares a handler call
CaseLabelsNoLogin ==
  [ handleItemEvent |-> {"item/created", "item/updated"},
    handleItemDeleted |-> {"item/deleted"},
    handleItemStatusEvent |-> {"item/error", "item/waiting_user_input"},
    handleConnectorStatusUpdate |-> {"connector/status_updated"},
    handleTransactionsCreated |-> {"transactions/created"},
    handleTransactionsUpdated |-> {"transactions/updated"},
    handleTransactionsDeleted |-> {"transactions/deleted"},
    handlePaymentIntentEvent |->
      {"payment_intent/created", "payment_intent/completed",
       "payment_intent/waiting_payer_authorization", "payment_intent/error"},
    handlePaymentRequestUpdated |-> {"payment_request/updated"},
    handleScheduledPaymentEvent |->
      {"scheduled_payment/created", "scheduled_payment/completed",
       "scheduled_payment/error", "scheduled_payment/canceled"},
    handleAutomaticPixPaymentEvent |->
      {"automatic_pix_payment/created", "automatic_pix_payment/completed",
       "automatic_pix_payment/error", "automatic_pix_payment/canceled"},
    handlePaymentRefundEvent |->
      {"payment_refund/completed", "payment_refund/error"} ]

CaseLabelsConnectorAsItemStatus ==
  [ handleItemEvent |-> {"item/created", "item/updated", "item/login_succeeded"},
    handleItemDeleted |-> {"item/deleted"},
    handleItemStatusEvent |->
      {"item/error", "item/waiting_user_input", "connector/status_updated"},
    handleConnectorStatusUpdate |-> {},
    handleTransactionsCreated |-> {"transactions/created"},
    handleTransactionsUpdated |-> {"transactions/updated"},
    handleTransactionsDeleted |-> {"transactions/deleted"},
    handlePaymentIntentEvent |->
      {"payment_intent/created", "payment_intent/completed",
       "payment_intent/waiting_payer_authorization", "payment_intent/error"},
    handlePaymentRequestUpdated |-> {"payment_request/updated"},
    handleScheduledPaymentEvent |->
      {"scheduled_payment/created", "scheduled_payment/completed",
       "scheduled_payment/error", "scheduled_payment/canceled"},
    handleAutomaticPixPaymentEvent |->
      {"automatic_pix_payment/created", "automatic_pix_payment/completed",
       "automatic_pix_payment/error", "automatic_pix_payment/canceled"},
    handlePaymentRefundEvent |->
      {"payment_refund/completed", "payment_refund/error"} ]

CaseLabels ==
  [ handleItemEvent |-> {"item/created", "item/updated", "item/login_succeeded"},
    handleItemDeleted |-> {"item/deleted"},
    handleItemStatusEvent |-> {"item/error", "item/waiting_user_input"},
    handleConnectorStatusUpdate |-> {"connector/status_updated"},
    handleTransactionsCreated |-> {"transactions/created"},
    handleTransactionsUpdated |-> {"transactions/updated"},
    handleTransactionsDeleted |-> {"transactions/deleted"},
    handlePaymentIntentEvent |->
      {"payment_intent/created", "payment_intent/completed",
       "payment_intent/waiting_payer_authorization", "payment_intent/error"},
    handlePaymentRequestUpdated |-> {"payment_request/updated"},
    handleScheduledPaymentEvent |->
      {"scheduled_payment/created", "scheduled_payment/completed",
       "scheduled_payment/error", "scheduled_payment/canceled"},
    handleAutomaticPixPaymentEvent |->
      {"automatic_pix_payment/created", "automatic_pix_payment/completed",
       "automatic_pix_payment/error", "automatic_pix_payment/canceled"},
    handlePaymentRefundEvent |->
      {"payment_refund/completed", "payment_refund/error"} ]

\* the handlers the switch calls for an event tag (none for the default arm)
Handlers(event) == { h \in DOMAIN CaseLabels : event \in CaseLabels[h] }

LogOnlyHandlers ==
  { "handleConnectorStatusUpdate", "handlePaymentIntentEvent",
    "handlePaymentRequestUpdated", "handleScheduledPaymentEvent",
    "handleAutomaticPixPaymentEvent", "handlePaymentRefundEvent" }

\* -------------------------------------------------------- provider data
\* What the provider answers to a successful fetch.  The data is the same
\* for every fetch of a run (the provider data does not change).
ProviderItems == {"IT1", "IT2"}

ProviderAccounts(item) == IF item = "IT1" THEN <<"AC1", "AC2">> ELSE << >>

AccountType(a) == IF a = "AC1" THEN "CREDIT" ELSE "BANK"

ProviderTransactions(a) ==
  CASE a = "AC1" -> <<"T1", "T2">>
    [] a = "AC2" -> <<"T3">>
    [] OTHER -> << >>

\* transaction.date as fetched: a Date object, a string (here with a time
\* part), or absent
ProviderDate(t) ==
  CASE t = "T1" -> [kind |-> "object", day |-> 1, time |-> TRUE]
    [] t = "T2" -> [kind |-> "string", day |-> 1, time |-> TRUE]
    [] OTHER -> [kind |-> "none", day |-> 0, time |-> FALSE]

ProviderBills(a) ==
  CASE a = "AC1" -> <<"B1">>
    [] a = "AC2" -> <<"B2">>
    [] OTHER -> << >>

\* identity of an item: IT2 has none (the fetch answers a null identity)
ProviderIdentity(item) == IF item = "IT1" THEN "ID1" ELSE None

ProviderInvestments(item) == IF item = "IT1" THEN <<"IV1">> ELSE << >>

ProviderLoans(item) == IF item = "IT1" THEN <<"LN1">> ELSE << >>

\* ------------------------------------------------------------- the store
Tables ==
  { "items", "pluggy_items", "accounts", "transactions", "bills",
    "identitiess", "investments", "loans" }

Row(id, parent, val) == [id |-> id, parent |-> parent, val |-> val]

\* supabase .upsert(row, {onConflict: <natural key>, ignoreDuplicates: false}):
\* the row with the same natural key is replaced, otherwise the row is added
InsertRow(rows, row) == rows (+) SetToBag({row})

UpsertRowWrongConflictKey(rows, row) ==
  LET others == { x \in DOMAIN rows : x # row }
  IN [x \in others |-> rows[x]] (+) SetToBag({row})

UpsertRowIgnoreDuplicates(rows, row) ==
  IF \E x \in DOMAIN rows : x.id = row.id THEN rows
  ELSE rows (+) SetToBag({row})

UpsertRow(rows, row) ==
  LET others == { x \in DOMAIN rows : x.id # row.id }
  IN [x \in others |-> rows[x]] (+) SetToBag({row})

RECURSIVE UpsertRows(_, _)
UpsertRows(rows, list) ==
  IF list = << >> THEN rows
  ELSE UpsertRows(UpsertRow(rows, Head(list)), Tail(list))

\* supabase .delete().eq(key, id) / .in(key, ids): the matching rows go,
\* and matching no row is not an error
DeleteAllRows(rows, ids) == EmptyBag

DeleteRows(rows, ids) ==
  LET kept == { x \in DOMAIN rows : x.id \notin ids }
  IN [x \in kept |-> rows[x]]

\* the error of a delete: none, also when no row matches
DeleteErrorWhenMissing(rows, ids) ==
  IF { x \in DOMAIN rows : x.id \in ids } = {} THEN "err" ELSE None

DeleteError(rows, ids) == None

Keys(rows) == { x.id : x \in DOMAIN rows }

EmptyStore == [t \in Tables |-> EmptyBag]

\* a store left by earlier runs: stale values, a transaction filed under
\* another account, and a transaction the provider no longer lists
SeededStore ==
  [ EmptyStore EXCEPT
      !["items"] = SetToBag({Row("IT1", None, "old")}),
      !["pluggy_items"] = SetToBag({Row("IT1", None, "old")}),
      !["accounts"] = SetToBag({Row("AC1", "IT1", "old")}),
      !["transactions"] =
         SetToBag({ Row("T1", "AC9", [day |-> 0, time |-> FALSE]),
                    Row("T9", "AC1", [day |-> 0, time |-> FALSE]) }) ]

\* ------------------------------------------------------------- mappers
DayString(d) == [day |-> d, time |-> FALSE]

\* upsertTransactionRecord: the stored date of a fetched transaction
TransactionDate(date, now) ==
  IF date.kind = "none" THEN DayString(now)
  ELSE IF date.kind = "string" THEN [day |-> date.day, time |-> date.time]
  ELSE DayString(date.day)

TransactionRecord(t, accountId, now) ==
  Row(t, accountId, TransactionDate(ProviderDate(t), now))

ItemRecord(item) == Row(item, None, "cur")
AccountRecord(a, itemId) == Row(a, itemId, "cur")
BillRecord(b, accountId) == Row(b, accountId, "cur")
IdentityRecord(i, itemId) == Row(i, itemId, "cur")
InvestmentRecord(i, itemId) == Row(i, itemId, "cur")
LoanRecord(l, itemId) == Row(l, itemId, "cur")

RECURSIVE MapSeq(_, _)
MapSeq(list, itemId) ==
  IF list = << >> THEN << >>
  ELSE <<AccountRecord(Head(list), itemId)>> \o MapSeq(Tail(list), itemId)

\* ------------------------------------------------------------- requests
\* payload.transactionIds: absent, or an array
NoIds == [given |-> FALSE, ids |-> << >>]
Ids(list) == [given |-> TRUE, ids |-> list]

Request(method, body, event, eventId, itemId, id, accountId, transactionIds) ==
  [ method |-> method, body |-> body, event |-> event, eventId |-> eventId,
    itemId |-> itemId, id |-> id, accountId |-> accountId,
    transactionIds |-> transactionIds ]

Post(event, itemId, id, accountId, transactionIds) ==
  Request("POST", "object", event, "E1", itemId, id, accountId, transactionIds)

ItemTags ==
  { "item/created", "item/updated", "item/login_succeeded", "item/deleted",
    "item/error", "item/waiting_user_input" }

TransactionTags ==
  { "transactions/created", "transactions/updated", "transactions/deleted" }

\* requests that never reach the dispatcher
MalformedRequests ==
  { Request("GET", "object", "item/created", "E1", "IT1", None, None, NoIds),
    Request("PUT", "object", "item/updated", "E1", "IT1", None, None, NoIds),
    Request("OPTIONS", "null", None, None, None, None, None, NoIds),
    Request("OPTIONS", "object", "item/updated", "E1", "IT1", None, None, NoIds),
    Request("POST", "null", None, None, None, None, None, NoIds),
    Request("POST", "string", None, None, None, None, None, NoIds),
    Request("POST", "array", None, None, None, None, None, NoIds),
    Request("POST", "object", None, "E1", "IT1", None, None, NoIds),
    Request("POST", "object", "item/created", None, "IT1", None, None, NoIds) }

\* item events: with itemId, with id alone, and with neither
ItemRequests ==
  { Post("item/updated", "IT1", None, None, NoIds),
    Post("item/updated", None, None, None, NoIds),
    Post("item/created", None, "IT2", None, NoIds),
    Post("item/login_succeeded", "IT2", None, None, NoIds),
    Post("item/error", "IT1", None, None, NoIds),
    Post("item/error", None, None, None, NoIds),
    Post("item/waiting_user_input", None, "IT2", None, NoIds),
    Post("item/deleted", "IT1", None, None, NoIds),
    Post("item/deleted", None, "IT2", None, NoIds),
    Post("item/deleted", None, None, None, NoIds) }

TransactionRequests ==
  { Post("transactions/created", "IT1", None, "AC1", Ids(<<"T1", "T9">>)),
    Post("transactions/created", "IT1", None, None, NoIds),
    Post("transactions/created", None, None, None, NoIds),
    Post("transactions/updated", "IT1", None, "AC1", Ids(<< >>)),
    Post("transactions/deleted", "IT1", None, "AC1", Ids(<<"T1", "T9">>)),
    Post("transactions/deleted", None, None, None, Ids(<< >>)),
    Post("transactions/deleted", None, None, None, NoIds) }

OtherRequests ==
  { Post(e, None, None, None, NoIds) :
      e \in (WebhookEventType \ (ItemTags \cup TransactionTags)) \cup {UnknownEvent} }
  \cup { Post(e, "IT1", "IT1", "AC1", Ids(<<"T1">>)) :
           e \in {"connector/status_updated", "payment_refund/completed"} }

AllRequests ==
  MalformedRequests \cup ItemRequests \cup TransactionRequests \cup OtherRequests

\* the requests of the runs in which two invocations overlap
OverlapRequests ==
  { Post("item/updated", "IT1", None, None, NoIds),
    Post("item/deleted", "IT1", None, None, NoIds),
    Post("item/error", "IT1", None, None, NoIds),
    Post("transactions/created", "IT1", None, "AC1", Ids(<<"T1", "T9">>)),
    Post("transactions/deleted", None, None, None, Ids(<<"T1", "T9">>)),
    Post("payment_request/updated", None, None, None, NoIds),
    Post(UnknownEvent, None, None, None, NoIds),
    Request("GET", "object", "item/created", "E1", "IT1", None, None, NoIds) }

\* the requests of the runs that exercise the transaction events: every
\* shape of itemId / accountId / transactionIds, after or before a sync pass
\* and a deletion of the item
TransactionPayloads ==
  { Post(e, ia[1], None, ia[2], t) :
      e \in {"transactions/created", "transactions/updated"},
      ia \in { <<"IT1", "AC1">>, <<None, "AC2">>, <<"IT1", None>>, <<None, None>> },
      t \in { NoIds, Ids(<< >>), Ids(<<"T1", "T9">>), Ids(<<"T2", "T3">>) } }
  \cup { Post("transactions/deleted", ia[1], None, ia[2], t) :
           ia \in { <<"IT1", "AC1">>, <<None, None>> },
           t \in { NoIds, Ids(<< >>), Ids(<<"T1", "T9">>) } }
  \cup { Post("item/updated", "IT1", None, None, NoIds),
         Post("item/deleted", "IT1", None, None, NoIds) }

\* the requests of the runs checked for progress: one per handler that
\* makes calls, and one the endpoint rejects
LiveRequests ==
  { Post("item/updated", "IT1", None, None, NoIds),
    Post("item/deleted", "IT1", None, None, NoIds),
    Post("transactions/deleted", None, None, None, Ids(<<"T1", "T9">>)),
    Request("GET", "object", "item/created", "E1", "IT1", None, None, NoIds) }

\* the requests of the runs that start from an empty store
FreshRequests ==
  { Post("item/updated", "IT1", None, None, NoIds),
    Post("item/created", None, "IT2", None, NoIds),
    Post("item/deleted", "IT1", None, None, NoIds),
    Post("transactions/created", None, None, "AC2", NoIds),
    Post("transactions/created", "IT1", None, None, Ids(<<"T1">>)),
    Post("transactions/deleted", None, None, None, Ids(<<"T1", "T3">>)) }

\* the requests of the runs in which an item is deleted while it is synced
DeleteRequests ==
  { Post("item/updated", "IT1", None, None, NoIds),
    Post("item/deleted", "IT1", None, None, NoIds),
    Post("transactions/deleted", None, None, None, Ids(<<"T1", "T9">>)) }

\* one request for each way through the endpoint
SendRequests ==
  { Post("item/updated", "IT1", None, None, NoIds),
    Post("item/deleted", "IT1", None, None, NoIds),
    Post("transactions/deleted", None, None, None, Ids(<<"T1", "T9">>)),
    Post("item/updated", None, None, None, NoIds),
    Request("OPTIONS", "object", "item/updated", "E1", "IT1", None, None, NoIds),
    Request("GET", "object", "item/created", "E1", "IT1", None, None, NoIds),
    Request("POST", "null", None, None, None, None, None, NoIds),
    Request("POST", "object", "item/updated", None, "IT1", None, None, NoIds) }

NoRequest == Request(None, None, None, None, None, None, None, NoIds)

\* ---------------------------------------------------------------- state
VARIABLES
  store,    \* the datastore: table name -> bag of rows
  today,    \* the (UTC) day the clock showed when it was last read
  faults,   \* calls that failed so far
  served,   \* requests received so far
  creds,    \* PLUGGY_CLIENT_ID and PLUGGY_CLIENT_SECRET are both set
  cfg,      \* the run: how many invocations may overlap, which requests arrive
  req,      \* per invocation: the request
  pc,       \* per invocation: the call it is about to make
  log,      \* per invocation: the external calls made, in order, with results
  out,      \* per invocation: how the handler, the sync pass and the dispatcher ended
  resp,     \* per invocation: the HTTP responses sent
  start,    \* per invocation: the store and the day when the request arrived
  prev,     \* the last finished invocation (sequential runs)
  client    \* pluggyClient.ts: the module's instance and the calls of getPluggyClient

vars ==
  << store, today, faults, served, creds, cfg, req, pc, log, out, resp, start, prev,
     client >>

PC(at, ctx, ai, ti) == [at |-> at, ctx |-> ctx, ai |-> ai, ti |-> ti]
Idle == PC("idle", None, 0, 0)
AtRespond == PC("respond", None, 0, 0)
AtDone == PC("done", None, 0, 0)
Terminal == {"return", "raise", "syncReturn", "syncRaise"}
End(how) == PC(how, None, 0, 0)

NoOut ==
  [ dispatched |-> FALSE, ran |-> {}, handler |-> None, sync |-> None,
    proc |-> None, during |-> {} ]

NoPrev ==
  [ sync |-> None, day |-> 0, store |-> EmptyStore,
    req |-> NoRequest, log |-> << >>, handler |-> None ]

\* let pluggyClientInstance: undefined (0) until the first construction;
\* built counts the constructions, calls lists what each call gave back
NoClient == [instance |-> 0, built |-> 0, calls |-> << >>]

InitCommon ==
  /\ today = 1
  /\ faults = 0
  /\ served = 0
  /\ creds \in BOOLEAN
  /\ req = [r \in Slots |-> NoRequest]
  /\ pc = [r \in Slots |-> Idle]
  /\ log = [r \in Slots |-> << >>]
  /\ out = [r \in Slots |-> NoOut]
  /\ resp = [r \in Slots |-> << >>]
  /\ start = [r \in Slots |-> [store |-> EmptyStore, day |-> 0]]
  /\ prev = NoPrev
  /\ client = NoClient

\* invocations run one at a time
Init ==
  /\ InitCommon
  /\ store = SeededStore
  /\ cfg = [ overlap |-> 1, requests |-> MaxRequests, menu |-> AllRequests,
             faults |-> MaxFaults,
            itemTable |-> "items", send |-> {"ok"} ]

\* two invocations may be in flight together
InitOverlap ==
  /\ InitCommon
  /\ store = SeededStore
  /\ cfg = [ overlap |-> Cardinality(Slots), requests |-> Cardinality(Slots),
             menu |-> OverlapRequests, faults |-> MaxFaults - 1,
            itemTable |-> "items", send |-> {"ok"} ]

\* invocations run one at a time and carry transaction events
InitTransactions ==
  /\ InitCommon
  /\ store = SeededStore
  /\ cfg = [overlap |-> 1, requests |-> MaxRequests, menu |-> TransactionPayloads,
            faults |-> MaxFaults,
            itemTable |-> "items", send |-> {"ok"} ]

\* ----------------------------------------------------- the HTTP endpoint
\* src/api/webhook.ts: the body checks of lines 35 and 42
ValidBodyNoEventId(rq) ==
  /\ rq.body \in {"object", "array"}
  /\ rq.event # None

ValidBody(rq) ==
  /\ rq.body \in {"object", "array"}
  /\ rq.event # None
  /\ rq.eventId # None

\* processWebhookEvent, lines 96-99: the catch logs and does not rethrow
ProcessOutcomeRethrow(how) == how

ProcessOutcome(how) == "returned"

\* src/api/webhook.ts lines 53-71: the response after processWebhookEvent
\* returned or raised
WebhookResponseFailing(rq, o) ==
  IF o.handler = "raised"
  THEN [status |-> 500, received |-> FALSE, event |-> None, eventId |-> None]
  ELSE [status |-> 200, received |-> TRUE, event |-> rq.event,
        eventId |-> rq.eventId]

WebhookResponse(rq, o) ==
  [status |-> 200, received |-> TRUE, event |-> rq.event, eventId |-> rq.eventId]

ErrorResponse(status) ==
  [status |-> status, received |-> FALSE, event |-> None, eventId |-> None]

EarlyStatusAnyMethod(rq) == IF ~ValidBody(rq) THEN 400 ELSE 0

\* the status of the answer the endpoint gives before it processes
\* anything: the CORS preflight, a method other than POST, a malformed
\* body; 0 when the request goes on to processWebhookEvent
EarlyStatus(rq) ==
  IF rq.method = "OPTIONS" THEN 200
  ELSE IF rq.method # "POST" THEN 405
  ELSE IF ~ValidBody(rq) THEN 400
  ELSE 0

SentBeforeProcessingReceived(rq) == <<WebhookResponse(rq, None)>>

\* what the endpoint has sent when it awaits processWebhookEvent at line
\* 54: nothing, res.status(200).json(...) follows the await at line 66
SentBeforeProcessing(rq) == << >>

ItemIdNoFallback(rq) == rq.itemId

\* payload.itemId || payload.id
ItemId(rq) == IF rq.itemId # None THEN rq.itemId ELSE rq.id

HasIds(rq) == rq.transactionIds.given /\ Len(rq.transactionIds.ids) > 0

\* handleTransactionsCreated up to its first await: the credentials probe,
\* then accountId before itemId
HasPluggyCredentialsAlways == TRUE

\* hasPluggyCredentials(): both environment variables are set
HasPluggyCredentials == creds

\* getPluggyClient(): throws when a variable is missing, hands out the
\* client otherwise; nxt is the code after the call, fail where the
\* exception ends up
GetPluggyClient(nxt, fail) == IF creds THEN nxt ELSE fail

HandleTransactionsCreatedItemFirst(rq) ==
  IF ~HasPluggyCredentials THEN End("return")
  ELSE GetPluggyClient(
         IF rq.itemId # None THEN PC("fetchAccounts", "txItem", 0, 0)
         ELSE IF rq.accountId # None THEN PC("fetchTransactions", "txAccount", 0, 0)
         ELSE End("return"),
         End("raise"))

HandleTransactionsCreated(rq) ==
  IF ~HasPluggyCredentials THEN End("return")
  ELSE GetPluggyClient(
         IF rq.accountId # None THEN PC("fetchTransactions", "txAccount", 0, 0)
         ELSE IF rq.itemId # None THEN PC("fetchAccounts", "txItem", 0, 0)
         ELSE End("return"),
         End("raise"))

\* handleTransactionsUpdated awaits handleTransactionsCreated(payload)
HandleTransactionsUpdatedLogOnly(rq) == End("return")

HandleTransactionsUpdated(rq) == HandleTransactionsCreated(rq)

\* the first awaited call of the handler of a request, or how it ends
\* when it makes none
FirstCall(h, rq) ==
  CASE h = "handleItemEvent" ->
         IF ~HasPluggyCredentials THEN End("return")
         ELSE IF ItemId(rq) = None THEN End("return")
         ELSE GetPluggyClient(PC("fetchItem", "itemEvent", 0, 0), End("raise"))
    [] h = "handleItemStatusEvent" ->
         IF ItemId(rq) = None THEN End("return")
         ELSE IF ~HasPluggyCredentials THEN End("return")
         ELSE GetPluggyClient(PC("fetchItem", "itemStatus", 0, 0), End("raise"))
    [] h = "handleItemDeleted" ->
         IF ItemId(rq) = None THEN End("return")
         ELSE PC("deleteItem", "itemDeleted", 0, 0)
    [] h = "handleTransactionsCreated" -> HandleTransactionsCreated(rq)
    [] h = "handleTransactionsUpdated" -> HandleTransactionsUpdated(rq)
    [] h = "handleTransactionsDeleted" ->
         IF ~HasIds(rq) THEN End("return")
         ELSE PC("deleteTransactions", "txDeleted", 0, 0)
    [] OTHER -> End("return")

DispatchOncePerEventId(rq) ==
  IF prev.req.event = rq.event /\ prev.req.eventId = rq.eventId
  THEN End("return")
  ELSE IF Handlers(rq.event) = {} THEN End("return")
  ELSE FirstCall(CHOOSE h \in Handlers(rq.event) : TRUE, rq)

\* the switch of processWebhookEvent
Dispatch(rq) ==
  IF Handlers(rq.event) = {} THEN End("return")
  ELSE FirstCall(CHOOSE h \in Handlers(rq.event) : TRUE, rq)

\* the handler ended (returned or raised): the dispatcher takes over
Ended(o, how) == [o EXCEPT !.handler = how, !.proc = ProcessOutcome(how)]

\* two deliveries of transactions/created or transactions/updated that
\* carry the same payload but for the event tag
Twins(a, b) ==
  /\ a.event \in {"transactions/created", "transactions/updated"}
  /\ b.event \in {"transactions/created", "transactions/updated"}
  /\ [a EXCEPT !.event = None] = [b EXCEPT !.event = None]

\* the invocations that stand inside a sync pass
InFlight == { s \in Slots : out[s].sync = "running" }

\* a request arrives and the endpoint runs up to its first await
Handler(r) ==
  /\ pc[r].at = "idle"
  /\ \A s \in Slots : s < r => pc[s].at # "idle"
  /\ served < cfg.requests
  /\ Cardinality({ s \in Slots : pc[s].at # "idle" }) < cfg.overlap
  /\ \E rq \in cfg.menu :
       /\ req' = [req EXCEPT ![r] = rq]
       /\ start' = [start EXCEPT ![r] = [store |-> store, day |-> today]]
       /\ log' = [log EXCEPT ![r] = << >>]
       /\ prev' = IF Twins(prev.req, rq) \/ prev.req = rq THEN prev
                  ELSE [prev EXCEPT !.req = NoRequest, !.log = << >>,
                                    !.handler = None]
       /\ IF EarlyStatus(rq) # 0 THEN
            /\ resp' = [resp EXCEPT ![r] = <<ErrorResponse(EarlyStatus(rq))>>]
            /\ pc' = [pc EXCEPT ![r] = AtDone]
            /\ out' = [out EXCEPT ![r] = NoOut]
          ELSE
            LET first == Dispatch(rq)
                o == [NoOut EXCEPT !.dispatched = TRUE, !.ran = Handlers(rq.event),
                                   !.during = InFlight]
            IN /\ resp' = [resp EXCEPT ![r] = SentBeforeProcessing(rq)]
               /\ IF first.at \in Terminal
                  THEN /\ out' = [out EXCEPT ![r] =
                                  Ended(o, IF first.at = "raise" THEN "raised"
                                           ELSE "returned")]
                       /\ pc' = [pc EXCEPT ![r] = AtRespond]
                  ELSE /\ out' = [out EXCEPT ![r] = o]
                       /\ pc' = [pc EXCEPT ![r] = first]
  /\ served' = served + 1
  /\ UNCHANGED << store, today, faults, creds, cfg, client >>

\* how res.status(200).json(...) may end: the response is written, or the
\* call throws before the headers are written, or it throws after them
SendOutcomes == {"ok", "before", "after"}

CatchHandlerErrorAlwaysSends(sent) == Append(sent, ErrorResponse(500))

\* src/api/webhook.ts lines 72-83: the outer catch answers 500 unless
\* res.headersSent
CatchHandlerError(sent) ==
  IF sent = << >> THEN Append(sent, ErrorResponse(500)) ELSE sent

\* res.status(200).json(...) after processWebhookEvent settled
Respond(r) ==
  /\ pc[r].at = "respond"
  /\ \E how \in cfg.send :
       LET written == IF how = "before" THEN resp[r]
                      ELSE Append(resp[r], WebhookResponse(req[r], out[r]))
       IN resp' = [resp EXCEPT ![r] = IF how = "ok" THEN written
                                      ELSE CatchHandlerError(written)]
  /\ pc' = [pc EXCEPT ![r] = AtDone]
  /\ UNCHANGED << store, today, faults, served, creds, cfg, req, log, out, start, prev,
                  client >>

\* ------------------------------------------- locals of a running handler
\* the accounts fetched for the item of the request
Accounts(r) ==
  ProviderAccounts(IF pc[r].ctx = "sync" THEN ItemId(req[r]) ELSE req[r].itemId)

\* the account whose transactions or bills are being processed
CurAccount(r) ==
  IF pc[r].ctx = "txAccount" THEN req[r].accountId ELSE Accounts(r)[pc[r].ai]

\* handleTransactionsCreated: allTransactions.filter(t => transactionIds.includes(t.id))
FilterIdsKeepsAll(all, ids) == all

FilterIds(all, ids) ==
  LET Listed(t) == \E k \in 1..Len(ids) : ids[k] = t
  IN SelectSeq(all, Listed)

\* the transactions a handler upserts after a fetch for the current account
TransactionsToProcess(r) ==
  LET all == ProviderTransactions(CurAccount(r))
  IN IF pc[r].ctx = "sync" THEN all
     ELSE IF HasIds(req[r]) THEN FilterIds(all, req[r].transactionIds.ids)
     ELSE all

\* --------------------------------------------------- control flow of a pass
\* after the last account: identity in a sync pass, the end of the handler
\* in handleTransactionsCreated
AfterAccounts(r) ==
  IF pc[r].ctx = "sync" THEN PC("fetchIdentity", "sync", 0, 0) ELSE End("return")

\* the for loop over the accounts
NextAccount(r) ==
  IF pc[r].ctx = "txAccount" THEN End("return")
  ELSE IF pc[r].ai < Len(Accounts(r))
       THEN PC("fetchTransactions", pc[r].ctx, pc[r].ai + 1, 0)
       ELSE AfterAccounts(r)

AfterTransactionsAlwaysBills(r) ==
  IF pc[r].ctx = "sync" THEN PC("fetchBills", "sync", pc[r].ai, 0)
  ELSE NextAccount(r)

\* syncItemData line 276: bills only for a CREDIT account
AfterTransactions(r) ==
  IF pc[r].ctx = "sync" /\ AccountType(CurAccount(r)) = "CREDIT"
  THEN PC("fetchBills", "sync", pc[r].ai, 0)
  ELSE NextAccount(r)

\* catch (transactionError), lines 271-273 and 511-513; with an explicit
\* accountId (lines 516-519) the error is rethrown
CatchTransactionErrorRethrow(r) ==
  IF pc[r].ctx = "sync" THEN PC("fetchIdentity", "sync", 0, 0) ELSE End("raise")

CatchTransactionErrorSkipsOne(r) ==
  IF pc[r].ctx = "txAccount" THEN End("raise")
  ELSE IF pc[r].ti < Len(TransactionsToProcess(r))
       THEN PC("upsertTransaction", pc[r].ctx, pc[r].ai, pc[r].ti + 1)
       ELSE AfterTransactions(r)

CatchTransactionError(r) ==
  IF pc[r].ctx = "txAccount" THEN End("raise") ELSE AfterTransactions(r)

\* catch (billError), lines 300-302
CatchBillError(r) == NextAccount(r)

CatchAccountUpsertErrorRethrow(r) ==
  IF pc[r].ctx = "sync" /\ pc[r].at = "upsertAccounts" THEN End("syncRaise")
  ELSE IF pc[r].ctx = "sync" THEN PC("fetchIdentity", "sync", 0, 0)
  ELSE End("raise")

CatchAccountErrorEndsPass(r) ==
  IF pc[r].ctx = "sync" THEN End("syncReturn") ELSE End("raise")

\* catch (accountError), lines 306-308; lines 516-519 in handleTransactionsCreated
CatchAccountError(r) ==
  IF pc[r].ctx = "sync" THEN PC("fetchIdentity", "sync", 0, 0) ELSE End("raise")

\* catch (identityError), lines 333-338: a 404 is silent, any other error is logged
CatchIdentityErrorRethrow(r, res) ==
  IF res = "404" THEN End("syncRaise") ELSE PC("fetchInvestments", "sync", 0, 0)

CatchIdentityErrorRetry(r, res) == PC("fetchIdentity", "sync", 0, 0)

CatchIdentityError(r, res) == PC("fetchInvestments", "sync", 0, 0)

\* catch (investmentError), lines 385-390
CatchInvestmentError(r, res) == PC("fetchLoans", "sync", 0, 0)

CatchLoanErrorNeverSettles(r, res) == PC("pending", "sync", 0, 0)

\* catch (loanError), lines 451-456: the pass ends
CatchLoanError(r, res) == End("syncReturn")

CatchItemErrorThenSync(r) == PC("fetchAccounts", "sync", 0, 0)

\* handleItemEvent lines 158-161, handleItemStatusEvent lines 221-224
CatchItemError(r) == End("raise")

\* handleItemEvent line 150: the sync pass follows the item upsert
SyncsAfterUpsert(event) ==
  event \in {"item/created", "item/updated", "item/login_succeeded"}

\* syncItemData lines 228-231: the credentials probe
SyncStart(r) ==
  IF ~HasPluggyCredentials THEN End("syncReturn")
  ELSE GetPluggyClient(PC("fetchAccounts", "sync", 0, 0), End("syncRaise"))

AfterUpsertItemAlwaysSync(r) == SyncStart(r)

\* after the item upsert: handleItemEvent lines 150-157 run the sync pass
\* for three tags, handleItemStatusEvent ends at line 219
AfterUpsertItem(r) ==
  IF pc[r].ctx = "itemEvent" /\ SyncsAfterUpsert(req[r].event)
  THEN SyncStart(r)
  ELSE End("return")

\* handleItemDeleted lines 173-178: an error whose message names PGRST116
\* is swallowed, any other is rethrown
CatchDeleteError(res) == IF res = "pgrst116" THEN End("return") ELSE End("raise")

\* one awaited call: its result, its effect on the store and the code up to
\* the next await
Call(r, name, arg, res, nxt, st, now) ==
  /\ res # "ok" => faults < cfg.faults
  /\ today' = now
  /\ faults' = IF res = "ok" THEN faults ELSE faults + 1
  /\ log' = [log EXCEPT ![r] = Append(@, [call |-> name, arg |-> arg, res |-> res])]
  /\ store' = st
  /\ LET o1 == IF nxt.at = "syncReturn" THEN [out[r] EXCEPT !.sync = "returned"]
               ELSE IF nxt.at = "syncRaise" THEN [out[r] EXCEPT !.sync = "raised"]
               ELSE IF nxt.ctx = "sync" /\ pc[r].ctx # "sync"
                    THEN [out[r] EXCEPT !.sync = "running"]
               ELSE out[r]
         \* a raising sync pass is caught in handleItemEvent, lines 151-156
         how == IF nxt.at = "raise" THEN "raised" ELSE "returned"
     IN IF nxt.at \in Terminal
        THEN /\ out' = [out EXCEPT ![r] = Ended(o1, how)]
             /\ pc' = [pc EXCEPT ![r] = AtRespond]
        ELSE /\ out' = [out EXCEPT ![r] = o1]
             /\ pc' = [pc EXCEPT ![r] = nxt]
  /\ UNCHANGED << served, creds, cfg, req, resp, start, prev, client >>

\* new Date() in upsertTransactionRecord, evaluated only for a transaction
\* without a date: the clock never runs backwards
ClockReads(t) ==
  IF ProviderDate(t).kind = "none" THEN today..MaxDay ELSE {today}

Put(table, rows) == [store EXCEPT ![table] = rows]

\* ------------------------------------------------------------ item events
FetchItem(r) ==
  /\ pc[r].at = "fetchItem"
  /\ \E res \in {"ok", "err"} :
       Call(r, "fetchItem", ItemId(req[r]), res,
            IF res = "ok" THEN PC("upsertItem", pc[r].ctx, 0, 0)
            ELSE CatchItemError(r),
            store, today)

UpsertItem(r) ==
  /\ pc[r].at = "upsertItem"
  /\ \E res \in {"ok", "err"} :
       Call(r, "upsertItem", ItemId(req[r]), res,
            IF res # "ok" THEN CatchItemError(r)
            ELSE AfterUpsertItem(r),
            IF res = "ok"
            THEN Put(cfg.itemTable,
                     UpsertRow(store[cfg.itemTable], ItemRecord(ItemId(req[r]))))
            ELSE store, today)

DeleteItem(r) ==
  /\ pc[r].at = "deleteItem"
  /\ \E res \in {"ok", "err", "pgrst116"} :
       LET ids == {ItemId(req[r])}
           e == IF res = "ok" THEN DeleteError(store["pluggy_items"], ids) ELSE res
       IN Call(r, "deleteItem", ItemId(req[r]), res,
               IF e = None THEN End("return") ELSE CatchDeleteError(e),
               IF res = "ok" /\ e = None
               THEN Put("pluggy_items", DeleteRows(store["pluggy_items"], ids))
               ELSE store, today)

\* --------------------------------------------- accounts, transactions, bills
FetchAccounts(r) ==
  /\ pc[r].at = "fetchAccounts"
  /\ \E res \in {"ok", "err"} :
       Call(r, "fetchAccounts",
            IF pc[r].ctx = "sync" THEN ItemId(req[r]) ELSE req[r].itemId, res,
            IF res # "ok" THEN CatchAccountError(r)
            ELSE IF Len(Accounts(r)) = 0 THEN AfterAccounts(r)
            ELSE IF pc[r].ctx = "sync" THEN PC("upsertAccounts", "sync", 0, 0)
            ELSE PC("fetchTransactions", pc[r].ctx, 1, 0),
            store, today)

UpsertAccounts(r) ==
  /\ pc[r].at = "upsertAccounts"
  /\ \E res \in {"ok", "err"} :
       Call(r, "upsertMultipleAccounts", ItemId(req[r]), res,
            IF res # "ok" THEN CatchAccountError(r)
            ELSE PC("fetchTransactions", "sync", 1, 0),
            IF res = "ok"
            THEN Put("accounts",
                     UpsertRows(store["accounts"], MapSeq(Accounts(r), ItemId(req[r]))))
            ELSE store, today)

FetchTransactions(r) ==
  /\ pc[r].at = "fetchTransactions"
  /\ \E res \in {"ok", "err"} :
       Call(r, "fetchAllTransactions", CurAccount(r), res,
            IF res # "ok" THEN CatchTransactionError(r)
            ELSE IF Len(TransactionsToProcess(r)) = 0 THEN AfterTransactions(r)
            ELSE PC("upsertTransaction", pc[r].ctx, pc[r].ai, 1),
            store, today)

UpsertTransaction(r) ==
  /\ pc[r].at = "upsertTransaction"
  /\ \E res \in {"ok", "err"} :
       LET list == TransactionsToProcess(r)
           t == list[pc[r].ti]
       IN \E now \in ClockReads(t) :
            Call(r, "upsertTransaction", t, res,
                 IF res # "ok" THEN CatchTransactionError(r)
                 ELSE IF pc[r].ti < Len(list)
                      THEN PC("upsertTransaction", pc[r].ctx, pc[r].ai, pc[r].ti + 1)
                 ELSE AfterTransactions(r),
                 IF res = "ok"
                 THEN Put("transactions",
                          UpsertRow(store["transactions"],
                                    TransactionRecord(t, CurAccount(r), now)))
                 ELSE store,
                 now)

FetchBills(r) ==
  /\ pc[r].at = "fetchBills"
  /\ \E res \in {"ok", "err"} :
       Call(r, "fetchCreditCardBills", CurAccount(r), res,
            IF res # "ok" THEN CatchBillError(r)
            ELSE IF Len(ProviderBills(CurAccount(r))) = 0 THEN NextAccount(r)
            ELSE PC("upsertBill", "sync", pc[r].ai, 1),
            store, today)

UpsertBill(r) ==
  /\ pc[r].at = "upsertBill"
  /\ \E res \in {"ok", "err"} :
       LET list == ProviderBills(CurAccount(r))
           b == list[pc[r].ti]
       IN Call(r, "upsertBill", b, res,
               IF res # "ok" THEN CatchBillError(r)
               ELSE IF pc[r].ti < Len(list)
                    THEN PC("upsertBill", "sync", pc[r].ai, pc[r].ti + 1)
               ELSE NextAccount(r),
               IF res = "ok"
               THEN Put("bills", UpsertRow(store["bills"], BillRecord(b, CurAccount(r))))
               ELSE store, today)

DeleteTransactions(r) ==
  /\ pc[r].at = "deleteTransactions"
  /\ \E res \in {"ok", "err"} :
       LET list == req[r].transactionIds.ids
           ids == { list[k] : k \in 1..Len(list) }
       IN Call(r, "deleteMultipleTransactions", None, res,
               IF res = "ok" THEN End("return") ELSE End("raise"),
               IF res = "ok"
               THEN Put("transactions", DeleteRows(store["transactions"], ids))
               ELSE store, today)

\* ------------------------------------------ identity, investments, loans
FetchIdentity(r) ==
  /\ pc[r].at = "fetchIdentity"
  /\ \E res \in {"ok", "err", "404"} :
       Call(r, "fetchIdentityByItemId", ItemId(req[r]), res,
            IF res # "ok" THEN CatchIdentityError(r, res)
            ELSE IF ProviderIdentity(ItemId(req[r])) = None
                 THEN PC("fetchInvestments", "sync", 0, 0)
            ELSE PC("upsertIdentity", "sync", 0, 0),
            store, today)

UpsertIdentity(r) ==
  /\ pc[r].at = "upsertIdentity"
  /\ \E res \in {"ok", "err"} :
       Call(r, "upsertIdentity", ProviderIdentity(ItemId(req[r])), res,
            IF res # "ok" THEN CatchIdentityError(r, res)
            ELSE PC("fetchInvestments", "sync", 0, 0),
            IF res = "ok"
            THEN Put("identitiess",
                     UpsertRow(store["identitiess"],
                               IdentityRecord(ProviderIdentity(ItemId(req[r])),
                                              ItemId(req[r]))))
            ELSE store, today)

FetchInvestments(r) ==
  /\ pc[r].at = "fetchInvestments"
  /\ \E res \in {"ok", "err", "404"} :
       Call(r, "fetchInvestments", ItemId(req[r]), res,
            IF res # "ok" THEN CatchInvestmentError(r, res)
            ELSE IF Len(ProviderInvestments(ItemId(req[r]))) = 0
                 THEN PC("fetchLoans", "sync", 0, 0)
            ELSE PC("upsertInvestment", "sync", 0, 1),
            store, today)

UpsertInvestment(r) ==
  /\ pc[r].at = "upsertInvestment"
  /\ \E res \in {"ok", "err"} :
       LET list == ProviderInvestments(ItemId(req[r]))
           i == list[pc[r].ti]
       IN Call(r, "upsertInvestment", i, res,
               IF res # "ok" THEN CatchInvestmentError(r, res)
               ELSE IF pc[r].ti < Len(list)
                    THEN PC("upsertInvestment", "sync", 0, pc[r].ti + 1)
               ELSE PC("fetchLoans", "sync", 0, 0),
               IF res = "ok"
               THEN Put("investments",
                        UpsertRow(store["investments"],
                                  InvestmentRecord(i, ItemId(req[r]))))
               ELSE store, today)

FetchLoans(r) ==
  /\ pc[r].at = "fetchLoans"
  /\ \E res \in {"ok", "err", "404"} :
       Call(r, "fetchLoans", ItemId(req[r]), res,
            IF res # "ok" THEN CatchLoanError(r, res)
            ELSE IF Len(ProviderLoans(ItemId(req[r]))) = 0 THEN End("syncReturn")
            ELSE PC("upsertLoan", "sync", 0, 1),
            store, today)

UpsertLoan(r) ==
  /\ pc[r].at = "upsertLoan"
  /\ \E res \in {"ok", "err"} :
       LET list == ProviderLoans(ItemId(req[r]))
           l == list[pc[r].ti]
       IN Call(r, "upsertLoan", l, res,
               IF res # "ok" THEN CatchLoanError(r, res)
               ELSE IF pc[r].ti < Len(list)
                    THEN PC("upsertLoan", "sync", 0, pc[r].ti + 1)
               ELSE End("syncReturn"),
               IF res = "ok"
               THEN Put("loans", UpsertRow(store["loans"], LoanRecord(l, ItemId(req[r]))))
               ELSE store, today)

\* ------------------------------------------------- end of an invocation
Clean(r) == \A k \in 1..Len(log[r]) : log[r][k].res = "ok"

\* the invocation ran a whole sync pass in which no call failed
CleanSync(r) == out[r].sync = "returned" /\ Clean(r)

\* the invocations whose calls are kept for comparison with the next one:
\* the dispatched transactions/created and transactions/updated events
Recorded(r) ==
  /\ out[r].dispatched
  /\ req[r].event \in {"transactions/created", "transactions/updated",
                       "item/deleted"}

\* the handler function returns; its locals are gone
Return(r) ==
  /\ pc[r].at = "done"
  /\ prev' = [ sync |-> IF CleanSync(r) THEN ItemId(req[r]) ELSE None,
               day |-> start[r].day, store |-> store,
               req |-> IF Recorded(r) THEN req[r] ELSE NoRequest,
               log |-> IF Recorded(r) THEN log[r] ELSE << >>,
               handler |-> IF Recorded(r) THEN out[r].handler ELSE None ]
  /\ pc' = [pc EXCEPT ![r] = Idle]
  /\ req' = [req EXCEPT ![r] = NoRequest]
  /\ log' = [log EXCEPT ![r] = << >>]
  /\ out' = [out EXCEPT ![r] = NoOut]
  /\ resp' = [resp EXCEPT ![r] = << >>]
  /\ start' = [start EXCEPT ![r] = [store |-> EmptyStore, day |-> 0]]
  /\ UNCHANGED << store, today, faults, served, creds, cfg, client >>

Next ==
  \/ \E r \in Slots : Handler(r)
  \/ \E r \in Slots : FetchItem(r)
  \/ \E r \in Slots : UpsertItem(r)
  \/ \E r \in Slots : DeleteItem(r)
  \/ \E r \in Slots : FetchAccounts(r)
  \/ \E r \in Slots : UpsertAccounts(r)
  \/ \E r \in Slots : FetchTransactions(r)
  \/ \E r \in Slots : UpsertTransaction(r)
  \/ \E r \in Slots : FetchBills(r)
  \/ \E r \in Slots : UpsertBill(r)
  \/ \E r \in Slots : DeleteTransactions(r)
  \/ \E r \in Slots : FetchIdentity(r)
  \/ \E r \in Slots : UpsertIdentity(r)
  \/ \E r \in Slots : FetchInvestments(r)
  \/ \E r \in Slots : UpsertInvestment(r)
  \/ \E r \in Slots : FetchLoans(r)
  \/ \E r \in Slots : UpsertLoan(r)
  \/ \E r \in Slots : Respond(r)
  \/ \E r \in Slots : Return(r)

Spec == Init /\ [][Next]_vars

SpecOverlap == InitOverlap /\ [][Next]_vars

SpecTransactions == InitTransactions /\ [][Next]_vars

\* invocations run one at a time on a store that holds nothing yet
InitFresh ==
  /\ InitCommon
  /\ store = EmptyStore
  /\ cfg = [ overlap |-> 1, requests |-> MaxRequests, menu |-> FreshRequests,
             faults |-> MaxFaults,
            itemTable |-> "items", send |-> {"ok"} ]

SpecFresh == InitFresh /\ [][Next]_vars

\* two invocations may be in flight together on a store that holds nothing
\* yet; itemsService.upsertItem writes table items in one revision of the
\* service and table pluggy_items in the other
InitDelete ==
  /\ InitCommon
  /\ store = EmptyStore
  /\ \E t \in {"items", "pluggy_items"} :
       cfg = [ overlap |-> Cardinality(Slots), requests |-> Cardinality(Slots),
               menu |-> DeleteRequests, faults |-> MaxFaults - 1,
               itemTable |-> t, send |-> {"ok"} ]

SpecDelete == InitDelete /\ [][Next]_vars

\* invocations run one at a time, any call may fail, and so may the writing
\* of the response
InitSend ==
  /\ InitCommon
  /\ store = SeededStore
  /\ cfg = [ overlap |-> 1, requests |-> MaxRequests, menu |-> SendRequests,
            faults |-> MaxFaults, itemTable |-> "items", send |-> SendOutcomes ]

SpecSend == InitSend /\ [][Next]_vars

\* invocations run one at a time, any call may fail
InitLive ==
  /\ InitCommon
  /\ store = SeededStore
  /\ cfg = [ overlap |-> 1, requests |-> MaxRequests, menu |-> LiveRequests,
             faults |-> MaxFaults,
            itemTable |-> "items", send |-> {"ok"} ]

\* the step an invocation that was started can take: the awaited call it
\* stands at settles (returns or raises), or the endpoint sends its answer
Step(r) ==
  \/ FetchItem(r) \/ UpsertItem(r) \/ DeleteItem(r)
  \/ FetchAccounts(r) \/ UpsertAccounts(r)
  \/ FetchTransactions(r) \/ UpsertTransaction(r)
  \/ FetchBills(r) \/ UpsertBill(r) \/ DeleteTransactions(r)
  \/ FetchIdentity(r) \/ UpsertIdentity(r)
  \/ FetchInvestments(r) \/ UpsertInvestment(r)
  \/ FetchLoans(r) \/ UpsertLoan(r)
  \/ Respond(r)

\* every awaited call eventually settles and the event loop runs the
\* continuation; nothing obliges a request to arrive
Fairness == \A r \in Slots : WF_vars(Step(r))

SpecLive == InitLive /\ [][Next]_vars /\ Fairness

\* ------------------------------------------- the provider client module
\* the places that call getPluggyClient(): handleItemEvent line 117,
\* handleItemStatusEvent line 194, syncItemData line 234,
\* handleTransactionsCreated line 477
ClientCallSites ==
  { "handleItemEvent", "handleItemStatusEvent", "syncItemData",
    "handleTransactionsCreated" }

PluggyClientAlwaysNew(c, cl) ==
  IF ~c THEN [threw |-> TRUE, instance |-> 0, state |-> cl]
  ELSE [ threw |-> FALSE, instance |-> cl.built + 1,
         state |-> [cl EXCEPT !.instance = cl.built + 1, !.built = cl.built + 1] ]

\* getPluggyClient(): throws when a credential is missing, returns the
\* module's instance when there is one, otherwise constructs it, keeps it
\* and returns it; an instance is named by its construction number
PluggyClient(c, cl) ==
  IF ~c THEN [threw |-> TRUE, instance |-> 0, state |-> cl]
  ELSE IF cl.instance # 0
       THEN [threw |-> FALSE, instance |-> cl.instance, state |-> cl]
  ELSE [ threw |-> FALSE, instance |-> cl.built + 1,
         state |-> [cl EXCEPT !.instance = cl.built + 1, !.built = cl.built + 1] ]

\* one call of getPluggyClient() from one of its call sites
GetPluggyClientCall(site) ==
  /\ Len(client.calls) < MaxCalls
  /\ LET got == PluggyClient(creds, client)
     IN client' = [got.state EXCEPT !.calls =
                     Append(@, [site |-> site, threw |-> got.threw,
                                instance |-> got.instance])]
  /\ UNCHANGED << store, today, faults, served, creds, cfg, req, pc, log, out,
                  resp, start, prev >>

InitClient ==
  /\ InitCommon
  /\ store = EmptyStore
  /\ cfg = [overlap |-> 1, requests |-> 0, menu |-> {}, faults |-> 0,
            itemTable |-> "items", send |-> {"ok"} ]

NextClient == \E site \in ClientCallSites : GetPluggyClientCall(site)

SpecClient == InitClient /\ [][NextClient]_vars

\* ================================================================ claims
Done(r) == pc[r].at = "done"
Over(r) == pc[r].at \in {"respond", "done"}

\* a POST whose body is an object that carries event and eventId
WellFormed(rq) ==
  rq.method = "POST" /\ rq.body = "object" /\ rq.event # None /\ rq.eventId # None

Malformed(rq) ==
  rq.method = "POST" /\ (rq.body # "object" \/ rq.event = None \/ rq.eventId = None)

Called(r, call, arg) ==
  \E k \in 1..Len(log[r]) : log[r][k].call = call /\ log[r][k].arg = arg

Answered(r, call, arg, res) ==
  \E k \in 1..Len(log[r]) :
    log[r][k].call = call /\ log[r][k].arg = arg /\ log[r][k].res = res

CalledAny(r, call) == \E k \in 1..Len(log[r]) : log[r][k].call = call

Range(list) == { list[k] : k \in 1..Len(list) }

Received(rq) ==
  [status |-> 200, received |-> TRUE, event |-> rq.event, eventId |-> rq.eventId]

\* C1: a POST with a well-formed body is answered 200 {received, event,
\* eventId} and nothing else, whatever the handler did (fetch failure,
\* persistence failure, missing credentials, unknown tag)
C1_WellFormedAnswered200 ==
  \A r \in Slots :
    WellFormed(req[r]) =>
      /\ Done(r) => resp[r] = <<Received(req[r])>>
      /\ ~Done(r) => resp[r] = << >>

C1_Witness ==
  \E r \in Slots :
    /\ Done(r) /\ WellFormed(req[r])
    /\ out[r].handler = "raised"
    /\ \E k \in 1..Len(log[r]) : log[r][k].res = "err"
    /\ resp[r] = <<Received(req[r])>>

\* C2: processWebhookEvent completes normally for every tag and every
\* error of the handler it routes to
C2_DispatcherNeverRaises ==
  \A r \in Slots :
    /\ out[r].proc # "raised"
    /\ (Over(r) /\ out[r].dispatched) => out[r].proc = "returned"

C2_Witness ==
  \E r \in Slots :
    pc[r].at = "respond" /\ out[r].handler = "raised" /\ out[r].proc = "returned"

\* C3: a POST with a malformed body is answered 400 and never reaches the
\* dispatcher: no provider fetch, no persistence call
C3_MalformedRejected ==
  \A r \in Slots :
    Malformed(req[r]) =>
      /\ resp[r] = <<ErrorResponse(400)>>
      /\ ~out[r].dispatched
      /\ log[r] = << >>
      /\ store = start[r].store \/ cfg.overlap > 1

C3_Witness ==
  \E r \in Slots :
    /\ Done(r) /\ req[r].method = "POST" /\ req[r].body = "object"
    /\ req[r].event # None /\ req[r].eventId = None
    /\ resp[r] = <<ErrorResponse(400)>>

\* C4: every tag of the dispatch table routes to exactly one handler, and a
\* tag outside the table causes no provider fetch and no persistence call
C4_ExactlyOneHandler ==
  /\ \A e \in WebhookEventType : Cardinality(Handlers(e)) = 1
  /\ \A r \in Slots :
       out[r].dispatched =>
         /\ req[r].event \in WebhookEventType => Cardinality(out[r].ran) = 1
         /\ req[r].event \notin WebhookEventType =>
              out[r].ran = {} /\ log[r] = << >>

C4_Witness ==
  \E r \in Slots :
    /\ Done(r) /\ out[r].dispatched /\ req[r].event = UnknownEvent
    /\ out[r].ran = {} /\ log[r] = << >>

\* C5: when the transaction fetch of account A fails in a sync pass, the
\* bills of A (if CREDIT), the transactions and bills of every other
\* account, and identity, investments and loans are still fetched
C5_TransactionFailureIsolated ==
  \A r \in Slots :
    (Over(r) /\ out[r].sync # None) =>
      LET accounts == Range(ProviderAccounts(ItemId(req[r])))
      IN \A a \in accounts :
           Answered(r, "fetchAllTransactions", a, "err") =>
             /\ AccountType(a) = "CREDIT" => Called(r, "fetchCreditCardBills", a)
             /\ \A b \in accounts \ {a} :
                  /\ Called(r, "fetchAllTransactions", b)
                  /\ AccountType(b) = "CREDIT" => Called(r, "fetchCreditCardBills", b)
             /\ CalledAny(r, "fetchIdentityByItemId")
             /\ CalledAny(r, "fetchInvestments")
             /\ CalledAny(r, "fetchLoans")

C5_Witness ==
  \E r \in Slots :
    /\ Done(r) /\ out[r].sync = "returned"
    /\ Answered(r, "fetchAllTransactions", "AC1", "err")
    /\ Answered(r, "fetchCreditCardBills", "AC1", "ok")
    /\ Answered(r, "upsertTransaction", "T3", "ok")
    /\ Answered(r, "upsertLoan", "LN1", "ok")

\* C6: a provider 404 for identity, investments or loans in a sync pass
\* causes no upsert of that resource, raises nothing, and the later steps run
C6_NotFoundIsSilent ==
  \A r \in Slots :
    (Over(r) /\ out[r].sync # None) =>
      /\ (\E i \in ProviderItems : Answered(r, "fetchIdentityByItemId", i, "404")) =>
           /\ ~CalledAny(r, "upsertIdentity")
           /\ CalledAny(r, "fetchInvestments") /\ CalledAny(r, "fetchLoans")
           /\ out[r].sync = "returned" /\ out[r].handler = "returned"
      /\ (\E i \in ProviderItems : Answered(r, "fetchInvestments", i, "404")) =>
           /\ ~CalledAny(r, "upsertInvestment")
           /\ CalledAny(r, "fetchLoans")
           /\ out[r].sync = "returned" /\ out[r].handler = "returned"
      /\ (\E i \in ProviderItems : Answered(r, "fetchLoans", i, "404")) =>
           /\ ~CalledAny(r, "upsertLoan")
           /\ out[r].sync = "returned" /\ out[r].handler = "returned"

C6_Witness ==
  \E r \in Slots :
    /\ Done(r)
    /\ Answered(r, "fetchIdentityByItemId", "IT1", "404")
    /\ ~CalledAny(r, "upsertIdentity")
    /\ Answered(r, "upsertInvestment", "IV1", "ok")
    /\ Answered(r, "upsertLoan", "LN1", "ok")
    /\ out[r].sync = "returned"

\* the records the handlers can hand to an upsert, per table
Records(t) ==
  CASE t = "items" -> { ItemRecord(i) : i \in ProviderItems }
    [] t = "accounts" -> { AccountRecord(a, "IT1") : a \in {"AC1", "AC2"} }
    [] t = "transactions" ->
         { TransactionRecord(x, a, d) :
             x \in {"T1", "T2", "T3"}, a \in {"AC1", "AC2"}, d \in 1..MaxDay }
    [] t = "bills" -> { BillRecord("B1", "AC1") }
    [] t = "identitiess" -> { IdentityRecord("ID1", "IT1") }
    [] t = "investments" -> { InvestmentRecord("IV1", "IT1") }
    [] t = "loans" -> { LoanRecord("LN1", "IT1") }
    [] OTHER -> {}

C8_SecondPassChangesNothing ==
  \A r \in Slots :
    (Done(r) /\ out[r].sync = "returned" /\ prev.sync = ItemId(req[r])) =>
      store = prev.store

\* C8 amended: ... provided the clock showed one and the same day at every
\* reading of the two passes
C8_SecondPassSameDayChangesNothing ==
  \A r \in Slots :
    (Done(r) /\ out[r].sync = "returned" /\ prev.sync = ItemId(req[r])
       /\ today = prev.day) =>
      store = prev.store

C8_Witness ==
  \E r \in Slots :
    /\ Done(r) /\ CleanSync(r) /\ prev.sync = "IT1" /\ ItemId(req[r]) = "IT1"
    /\ today = prev.day
    /\ Answered(r, "upsertTransaction", "T3", "ok")
    /\ store = prev.store

\* what one sync pass of an item writes when every call succeeds and the
\* clock shows day d
PassRows(item, d) ==
  LET accounts == Range(ProviderAccounts(item))
  IN [ items |-> { ItemRecord(item) },
       pluggy_items |-> {},
       accounts |-> { AccountRecord(a, item) : a \in accounts },
       transactions |->
         UNION { { TransactionRecord(x, a, d) : x \in Range(ProviderTransactions(a)) } :
                 a \in accounts },
       bills |->
         UNION { { BillRecord(b, a) : b \in Range(ProviderBills(a)) } :
                 a \in { c \in accounts : AccountType(c) = "CREDIT" } },
       identitiess |->
         IF ProviderIdentity(item) = None THEN {}
         ELSE { IdentityRecord(ProviderIdentity(item), item) },
       investments |-> { InvestmentRecord(i, item) : i \in Range(ProviderInvestments(item)) },
       loans |-> { LoanRecord(l, item) : l \in Range(ProviderLoans(item)) } ]

\* the store after one such pass over the store s0
StoreAfterPass(s0, item, d) ==
  [ t \in Tables |->
      LET new == PassRows(item, d)[t]
          kept == { x \in DOMAIN s0[t] : \A y \in new : y.id # x.id }
      IN [ x \in kept \cup new |-> IF x \in new THEN 1 ELSE s0[t][x] ] ]

BothPasses(item) ==
  \A r \in Slots :
    Done(r) /\ CleanSync(r) /\ ItemId(req[r]) = item

\* C9: two sync passes of one item may be in flight together, and however
\* their calls interleave the store they leave is the store one pass leaves
C9_OverlappingPassesAgree ==
  \A item \in ProviderItems :
    BothPasses(item) =>
      \E d \in 1..MaxDay : store = StoreAfterPass(start[1].store, item, d)

\* both passes are over and the second started in the middle of the first
C9_Witness ==
  /\ BothPasses("IT1")
  /\ ItemRecord("IT1") \in DOMAIN start[2].store["items"]
  /\ AccountRecord("AC2", "IT1") \in DOMAIN start[2].store["accounts"]
  /\ start[2].store["loans"] = EmptyBag
  /\ LoanRecord("LN1", "IT1") \in DOMAIN store["loans"]

\* C10: item/deleted for an item the store does not hold ends as success
\* and leaves the store as it was
C10_DeleteMissingItemSucceeds ==
  \A r \in Slots :
    ( /\ Over(r) /\ out[r].dispatched /\ req[r].event = "item/deleted"
      /\ ItemId(req[r]) # None
      /\ ItemId(req[r]) \notin Keys(start[r].store["pluggy_items"])
      /\ Clean(r) ) =>
      /\ out[r].handler = "returned"
      /\ Answered(r, "deleteItem", ItemId(req[r]), "ok")
      /\ store = start[r].store

C10_Witness ==
  \E r \in Slots :
    /\ Done(r) /\ req[r].event = "item/deleted" /\ ItemId(req[r]) = "IT2"
    /\ log[r] = <<[call |-> "deleteItem", arg |-> "IT2", res |-> "ok"]>>
    /\ out[r].handler = "returned"
    /\ store = start[r].store

\* the rows of the store s that belong to the item: its accounts, the
\* transactions and bills of its accounts, its identity, investments, loans
AccountsOf(s, item) ==
  { x.id : x \in { y \in DOMAIN s["accounts"] : y.parent = item } }
    \cup Range(ProviderAccounts(item))

Dependants(s, item) ==
  { x \in DOMAIN s["accounts"] : x.parent = item }
    \cup { x \in DOMAIN s["transactions"] : x.parent \in AccountsOf(s, item) }
    \cup { x \in DOMAIN s["bills"] : x.parent \in AccountsOf(s, item) }
    \cup { x \in DOMAIN s["identitiess"] : x.parent = item }
    \cup { x \in DOMAIN s["investments"] : x.parent = item }
    \cup { x \in DOMAIN s["loans"] : x.parent = item }

RECURSIVE ArgsOf(_, _)
ArgsOf(calls, call) ==
  IF calls = << >> THEN << >>
  ELSE (IF Head(calls).call = call /\ Head(calls).res = "ok"
        THEN <<Head(calls).arg>> ELSE << >>) \o ArgsOf(Tail(calls), call)

\* the rows of a table whose key is outside a set of keys
RowsOutside(rows, ids) ==
  LET kept == { x \in DOMAIN rows : x.id \notin ids }
  IN [ x \in kept |-> rows[x] ]

\* a transactions/created request that names an account and lists ids
CreatedWithIds(r) ==
  /\ req[r].method = "POST" /\ req[r].event = "transactions/created"
  /\ req[r].accountId # None
  /\ req[r].transactionIds.given /\ req[r].transactionIds.ids # << >>
  /\ out[r].dispatched /\ creds

\* C12: transactions/created with accountId and a non-empty transactionIds
\* fetches the transactions of that account only and upserts exactly the
\* fetched ones whose id is listed (all of them when no call fails); every
\* stored transaction that is not both fetched and listed stays as it was
C12_OnlyListedTransactionsUpserted ==
  \A r \in Slots :
    CreatedWithIds(r) =>
      LET listed == Range(req[r].transactionIds.ids)
          fetched == Range(ProviderTransactions(req[r].accountId))
          written == Range(ArgsOf(log[r], "upsertTransaction"))
      IN /\ written \subseteq fetched \cap listed
         /\ \A k \in 1..Len(log[r]) :
              /\ log[r][k].call \in {"fetchAllTransactions", "upsertTransaction"}
              /\ log[r][k].call = "fetchAllTransactions" =>
                   k = 1 /\ log[r][k].arg = req[r].accountId
         /\ RowsOutside(store["transactions"], written)
              = RowsOutside(start[r].store["transactions"], written)
         /\ \A t \in written :
              \E d \in start[r].day..today :
                store["transactions"]
                  = UpsertRow(store["transactions"],
                              TransactionRecord(t, req[r].accountId, d))
         /\ (Over(r) /\ Clean(r)) =>
              /\ written = fetched \cap listed
              /\ Len(ArgsOf(log[r], "upsertTransaction")) = Cardinality(written)
              /\ out[r].handler = "returned"

\* T1 of AC1 was upserted; T2 (fetched, not listed) and T9 (listed, not
\* fetched) are stored as they were before the request
C12_Witness ==
  \E r \in Slots :
    /\ Done(r) /\ CreatedWithIds(r) /\ req[r].accountId = "AC1"
    /\ req[r].transactionIds.ids = <<"T1", "T9">>
    /\ ArgsOf(log[r], "upsertTransaction") = <<"T1">>
    /\ "T2" \in Keys(start[r].store["transactions"])
    /\ "T9" \in Keys(store["transactions"])
    /\ store["transactions"] # start[r].store["transactions"]

\* the invocation r handles a transactions/created or transactions/updated
\* delivery and the invocation before it handled the same payload under
\* the other of the two tags
AfterTwin(r) ==
  /\ Recorded(r) /\ Twins(prev.req, req[r])
  /\ prev.req.event # req[r].event

Least(m, n) == IF m < n THEN m ELSE n

\* C13: transactions/updated and transactions/created with the same payload
\* make the same calls: the k-th call (name and argument) is the same
\* whenever the calls before it were answered alike, the two end alike
\* (returned or raised) when all calls were answered alike, and the second
\* of the two, run on the same day, rewrites exactly what the first wrote
C13_UpdatedBehavesAsCreated ==
  /\ \A rq \in TransactionPayloads :
       rq.event = "transactions/updated" =>
         HandleTransactionsUpdated(rq)
           = HandleTransactionsCreated([rq EXCEPT !.event = "transactions/created"])
  /\ \A r \in Slots :
       AfterTwin(r) =>
         LET a == prev.log
             b == log[r]
             alike == \A j \in 1..Least(Len(a), Len(b)) : a[j].res = b[j].res
         IN /\ \A k \in 1..Len(b) :
                 (\A j \in 1..(k - 1) : j <= Len(a) /\ a[j].res = b[j].res) =>
                   /\ k <= Len(a)
                   /\ a[k].call = b[k].call
                   /\ a[k].arg = b[k].arg
            /\ (Over(r) /\ alike) =>
                 /\ a = b
                 /\ prev.handler = out[r].handler
                 /\ today = prev.day => store = prev.store

\* transactions/updated for all accounts of IT1 made the six calls that
\* transactions/created had made before it
C13_Witness ==
  \E r \in Slots :
    /\ Done(r) /\ AfterTwin(r) /\ req[r].event = "transactions/updated"
    /\ req[r].itemId = "IT1" /\ req[r].accountId = None
    /\ Len(log[r]) = 6 /\ Clean(r)
    /\ log[r] = prev.log
    /\ store = prev.store

DeletedEvent(r) ==
  /\ req[r].method = "POST" /\ req[r].event = "transactions/deleted"
  /\ out[r].dispatched

\* C14: transactions/deleted with a non-empty transactionIds makes one
\* batch delete and no other call, and when it succeeds exactly the listed
\* keys are gone and nothing else changed, with or without itemId and
\* accountId (and credentials); with transactionIds absent or empty no
\* call is made at all
C14_DeletedRemovesListedKeys ==
  \A r \in Slots :
    DeletedEvent(r) =>
      LET ids == Range(req[r].transactionIds.ids)
      IN IF req[r].transactionIds.given /\ ids # {}
         THEN /\ Len(log[r]) <= 1
              /\ \A k \in 1..Len(log[r]) :
                   log[r][k].call = "deleteMultipleTransactions"
              /\ Over(r) => Len(log[r]) = 1
              /\ (Over(r) /\ Clean(r)) =>
                   /\ out[r].handler = "returned"
                   /\ store["transactions"]
                        = RowsOutside(start[r].store["transactions"], ids)
                   /\ \A t \in Tables \ {"transactions"} :
                        store[t] = start[r].store[t]
              /\ ~Clean(r) => store = start[r].store
         ELSE /\ log[r] = << >>
              /\ store = start[r].store
              /\ Over(r) => out[r].handler = "returned"

\* T1 and T9 were stored and are gone, T2 is still stored; the payload
\* carried neither itemId nor accountId
C14_Witness ==
  \E r \in Slots :
    /\ Done(r) /\ DeletedEvent(r)
    /\ req[r].itemId = None /\ req[r].accountId = None
    /\ req[r].transactionIds.ids = <<"T1", "T9">>
    /\ log[r] = <<[call |-> "deleteMultipleTransactions", arg |-> None, res |-> "ok"]>>
    /\ {"T1", "T9", "T2"} \subseteq Keys(start[r].store["transactions"])
    /\ Keys(store["transactions"]) \cap {"T1", "T9"} = {}
    /\ "T2" \in Keys(store["transactions"])

\* the tags of the payment events and of the connector status event
LogOnlyTags ==
  { e \in WebhookEventType :
      \E p \in { "payment_intent/", "payment_request/", "scheduled_payment/",
                 "automatic_pix_payment/", "payment_refund/" } :
        /\ Len(e) > Len(p)
        /\ SubSeq(e, 1, Len(p)) = p }
  \cup {"connector/status_updated"}

\* C15: a payment or connector event makes no provider fetch and no
\* persistence call and leaves the store as it was, whatever identifiers
\* its payload carries, and its handler returns
C15_LogOnlyEventsChangeNothing ==
  \A r \in Slots :
    (out[r].dispatched /\ req[r].event \in LogOnlyTags) =>
      /\ log[r] = << >>
      /\ store = start[r].store
      /\ pc[r].at \in {"respond", "done"}
      /\ out[r].handler = "returned"

C15_Witness ==
  \E r \in Slots :
    /\ Done(r) /\ req[r].event = "connector/status_updated"
    /\ req[r].id = "IT1" /\ req[r].itemId = "IT1" /\ creds
    /\ log[r] = << >> /\ store = start[r].store
    /\ resp[r] = <<Received(req[r])>>

\* the tags whose handlers probe the credentials before they obtain the
\* provider client
ProviderTags ==
  { "item/created", "item/updated", "item/login_succeeded", "item/error",
    "item/waiting_user_input", "transactions/created", "transactions/updated" }

\* C16: with the provider credentials absent, the handler of an item
\* created, updated, login_succeeded, error or waiting_user_input event and
\* of a transactions created or updated event returns without raising (the
\* configuration error of getPluggyClient is never thrown), makes no
\* provider or persistence call and leaves the store as it was
C16_NoCredentialsIsNoOp ==
  \A r \in Slots :
    (out[r].dispatched /\ ~creds /\ req[r].event \in ProviderTags) =>
      /\ log[r] = << >>
      /\ store = start[r].store
      /\ pc[r].at \in {"respond", "done"}
      /\ out[r].handler = "returned"
      /\ out[r].sync = NoOut.sync

C16_Witness ==
  /\ ~creds
  /\ \E r \in Slots :
       /\ Done(r) /\ req[r].event \in {"item/updated", "transactions/created"}
       /\ ItemId(req[r]) = "IT1"
       /\ log[r] = << >> /\ out[r].handler = "returned"
       /\ store = start[r].store
       /\ resp[r] = <<Received(req[r])>>

\* the request of invocation r is the one delivered just before it, with
\* the same event and the same eventId
Redelivered(r) ==
  /\ pc[r].at # "idle"
  /\ prev.req # NoRequest
  /\ prev.req = req[r]

\* C17: a second delivery of the same event with the same eventId is
\* dispatched to the same handler and processed in full as the first was:
\* its k-th call is the call the first delivery made whenever the calls
\* before it were answered alike, and when all calls were answered alike
\* the two make the same calls, end alike and are both answered 200
C17_RedeliveryProcessedInFull ==
  \A r \in Slots :
    Redelivered(r) =>
      LET a == prev.log
          b == log[r]
          alike == \A j \in 1..Least(Len(a), Len(b)) : a[j].res = b[j].res
      IN /\ out[r].dispatched
         /\ out[r].ran = Handlers(req[r].event)
         /\ \A k \in 1..Len(b) :
              (\A j \in 1..(k - 1) : j <= Len(a) /\ a[j].res = b[j].res) =>
                /\ k <= Len(a)
                /\ a[k].call = b[k].call
                /\ a[k].arg = b[k].arg
         /\ (Over(r) /\ alike) =>
              /\ a = b
              /\ prev.handler = out[r].handler
         /\ Done(r) => resp[r] = <<Received(req[r])>>

\* transactions/created for T1 and T9 of AC1, delivered twice with eventId
\* E1: the second delivery fetched and upserted again
C17_Witness ==
  \E r \in Slots :
    /\ Done(r) /\ Redelivered(r)
    /\ req[r].event = "transactions/created" /\ req[r].eventId = "E1"
    /\ req[r].accountId = "AC1" /\ req[r].transactionIds = Ids(<<"T1", "T9">>)
    /\ Len(log[r]) >= 2 /\ log[r] = prev.log
    /\ \E k \in 1..Len(log[r]) : log[r][k].call = "upsertTransaction"

\* a request whose method is not POST
NotPost(rq) == rq.method \notin {None, "POST"}

\* C18 as stated: every request whose method is not POST is answered 405
\* and triggers no processing
C18_NonPostAnswered405 ==
  \A r \in Slots :
    NotPost(req[r]) =>
      /\ resp[r] = <<ErrorResponse(405)>>
      /\ ~out[r].dispatched
      /\ log[r] = << >>

\* C18: a request whose method is neither POST nor OPTIONS is answered 405,
\* an OPTIONS request is answered 200, and neither is dispatched, makes a
\* provider or persistence call or changes the store
C18_NonPostNotProcessed ==
  \A r \in Slots :
    NotPost(req[r]) =>
      /\ resp[r] = <<ErrorResponse(IF req[r].method = "OPTIONS" THEN 200 ELSE 405)>>
      /\ pc[r].at = "done"
      /\ ~out[r].dispatched
      /\ out[r].ran = {}
      /\ log[r] = << >>
      /\ store = start[r].store \/ cfg.overlap > 1

\* a PUT that carries a well-formed item/updated body was answered 405
C18_Witness ==
  \E r \in Slots :
    /\ Done(r) /\ req[r].method = "PUT" /\ ValidBody(req[r])
    /\ req[r].event = "item/updated" /\ ItemId(req[r]) = "IT1"
    /\ resp[r] = <<ErrorResponse(405)>>
    /\ log[r] = << >> /\ store = start[r].store

\* C19: the transaction mapper stores a YYYY-MM-DD day for every date
\* representation: the string with a time part and the date object of the
\* same instant map to the same day, an absent date maps to the current
\* day, and no upserted transaction carries a time part in its date
C19_StoredDateIsDay ==
  /\ \A d \in 0..MaxDay, now \in 0..MaxDay :
       /\ TransactionDate([kind |-> "object", day |-> d, time |-> TRUE], now)
            = DayString(d)
       /\ TransactionDate([kind |-> "none", day |-> 0, time |-> FALSE], now)
            = DayString(now)
  /\ \A r \in Slots : \A k \in 1..Len(log[r]) :
       (log[r][k].call = "upsertTransaction" /\ log[r][k].res = "ok") =>
         \A row \in BagToSet(store["transactions"]) :
           row.id = log[r][k].arg => row.val.time = FALSE

\* C20: on item/created, item/updated and item/login_succeeded the first
\* call fetches the item, the second upserts it, and every call on an
\* account, transaction, bill, identity, investment or loan comes after
\* both succeeded
C20_ItemFirst ==
  \A r \in Slots :
    (out[r].dispatched /\ SyncsAfterUpsert(req[r].event)) =>
      LET l == log[r]
          item == [call |-> "fetchItem", arg |-> ItemId(req[r]), res |-> "ok"]
      IN /\ Len(l) >= 1 => l[1].call = "fetchItem" /\ l[1].arg = ItemId(req[r])
         /\ Len(l) >= 2 =>
              /\ l[1] = item
              /\ l[2].call = "upsertItem" /\ l[2].arg = ItemId(req[r])
         /\ \A k \in 1..Len(l) :
              l[k].call \notin {"fetchItem", "upsertItem"} =>
                /\ k >= 3
                /\ l[1] = item
                /\ l[2] = [item EXCEPT !.call = "upsertItem"]

\* item/updated for IT1 ran its whole pass: the loan was upserted after the
\* item had been fetched and upserted
C20_Witness ==
  \E r \in Slots :
    /\ Done(r) /\ req[r].event = "item/updated" /\ ItemId(req[r]) = "IT1"
    /\ Len(log[r]) > 6
    /\ log[r][1].call = "fetchItem" /\ log[r][2].call = "upsertItem"
    /\ log[r][3].call = "fetchAccounts"
    /\ \E k \in 4..Len(log[r]) : log[r][k].call = "fetchLoans"

\* C21: only item/created, item/updated and item/login_succeeded start the
\* sync pass; item/error and item/waiting_user_input fetch the item, upsert
\* it and make no other call
C21_StatusEventsDoNotSync ==
  \A r \in Slots :
    out[r].dispatched =>
      /\ out[r].sync # NoOut.sync => SyncsAfterUpsert(req[r].event)
      /\ req[r].event \in {"item/error", "item/waiting_user_input"} =>
           LET l == log[r]
           IN /\ Len(l) <= 2
              /\ Len(l) >= 1 => l[1].call = "fetchItem" /\ l[1].arg = ItemId(req[r])
              /\ Len(l) = 2 => l[2].call = "upsertItem" /\ l[2].arg = ItemId(req[r])
              /\ (Over(r) /\ Clean(r) /\ creds /\ ItemId(req[r]) # None) => Len(l) = 2
              /\ \A t \in Tables \ {"items"} : store[t] = start[r].store[t]
                                                \/ cfg.overlap > 1

\* item/waiting_user_input for IT2 ended after the fetch and the upsert of
\* the item, and the item row is stored
C21_Witness ==
  \E r \in Slots :
    /\ Done(r) /\ req[r].event = "item/waiting_user_input"
    /\ ItemId(req[r]) = "IT2"
    /\ Len(log[r]) = 2 /\ Clean(r)
    /\ log[r][2].call = "upsertItem"
    /\ "IT2" \in Keys(store["items"])
    /\ out[r].sync = NoOut.sync

\* the position of the first call of that name in the log of r, 0 if none
FirstAt(r, call) ==
  IF CalledAny(r, call)
  THEN CHOOSE k \in 1..Len(log[r]) :
         /\ log[r][k].call = call
         /\ \A j \in 1..(k - 1) : log[r][j].call # call
  ELSE 0

\* the calls of the accounts step of a sync pass
AccountStepCalls ==
  { "fetchAccounts", "upsertMultipleAccounts", "fetchAllTransactions",
    "upsertTransaction", "fetchCreditCardBills", "upsertBill" }

\* C22: in a sync pass that ended, identity, investments and loans were
\* each fetched, in that order, whatever failed before them: a failed
\* fetch or upsert of the accounts step is followed by the identity fetch,
\* a failed identity call by the investments fetch, a failed investments
\* call by the loans fetch
C22_ItemStepsIndependent ==
  \A r \in Slots :
    LET l == log[r]
        Failed(k) == l[k].res # "ok"
        Later(k, call) == \E j \in (k + 1)..Len(l) : l[j].call = call
    IN (out[r].sync = "returned" /\ creds) =>
         /\ 0 < FirstAt(r, "fetchIdentityByItemId")
         /\ FirstAt(r, "fetchIdentityByItemId") < FirstAt(r, "fetchInvestments")
         /\ FirstAt(r, "fetchInvestments") < FirstAt(r, "fetchLoans")
         /\ \A k \in 1..Len(l) :
              Failed(k) =>
                /\ l[k].call \in AccountStepCalls =>
                     /\ Later(k, "fetchIdentityByItemId")
                     /\ Later(k, "fetchInvestments")
                     /\ Later(k, "fetchLoans")
                /\ l[k].call \in {"fetchIdentityByItemId", "upsertIdentity"} =>
                     Later(k, "fetchInvestments") /\ Later(k, "fetchLoans")
                /\ l[k].call \in {"fetchInvestments", "upsertInvestment"} =>
                     Later(k, "fetchLoans")

\* the upsert of the accounts of IT1 failed and the pass went on to upsert
\* the identity, the investment and the loan
C22_Witness ==
  \E r \in Slots :
    /\ Done(r) /\ out[r].sync = "returned" /\ ItemId(req[r]) = "IT1"
    /\ Answered(r, "upsertMultipleAccounts", "IT1", "err")
    /\ Answered(r, "upsertIdentity", "ID1", "ok")
    /\ Answered(r, "upsertInvestment", "IV1", "ok")
    /\ Answered(r, "upsertLoan", "LN1", "ok")

\* the invocation entered syncItemData with the credentials set
InSync(r) == out[r].sync # NoOut.sync /\ creds

C24_BillsOnlyForCredit ==
  /\ \A row \in BagToSet(store["bills"]) : AccountType(row.parent) = "CREDIT"
  /\ \A r \in Slots :
       out[r].sync # NoOut.sync =>
         LET l == log[r]
             accounts == ProviderAccounts(ItemId(req[r]))
         IN /\ \A k \in 1..Len(l) :
                 /\ l[k].call = "fetchCreditCardBills" =>
                      /\ AccountType(l[k].arg) = "CREDIT"
                      /\ l[k].arg \in Range(accounts)
                 /\ l[k].call = "upsertBill" =>
                      \E a \in Range(accounts) :
                        /\ AccountType(a) = "CREDIT"
                        /\ l[k].arg \in Range(ProviderBills(a))
                        /\ \E j \in 1..(k - 1) :
                             l[j] = [call |-> "fetchCreditCardBills", arg |-> a,
                                     res |-> "ok"]
            /\ out[r].sync = "returned" =>
                 \A a \in Range(accounts) :
                   (AccountType(a) = "CREDIT" /\ Called(r, "fetchAllTransactions", a))
                     => Called(r, "fetchCreditCardBills", a)
            /\ Len(accounts) = 0 =>
                 /\ ~CalledAny(r, "fetchAllTransactions")
                 /\ ~CalledAny(r, "fetchCreditCardBills")
                 /\ ~CalledAny(r, "upsertTransaction")
                 /\ ~CalledAny(r, "upsertBill")

\* the pass for IT1 fetched the transactions of the CREDIT account AC1 and
\* of the BANK account AC2, and the bills of AC1 alone; bill B1 is stored
C24_Witness ==
  \E r \in Slots :
    /\ Done(r) /\ out[r].sync = "returned" /\ Clean(r)
    /\ ItemId(req[r]) = "IT1"
    /\ Called(r, "fetchAllTransactions", "AC1")
    /\ Called(r, "fetchAllTransactions", "AC2")
    /\ Called(r, "fetchCreditCardBills", "AC1")
    /\ ~Called(r, "fetchCreditCardBills", "AC2")
    /\ Keys(store["bills"]) = {"B1"}

\* the pass for IT2, an item without accounts, went from the account fetch
\* to the identity fetch
C24_WitnessNoAccounts ==
  \E r \in Slots :
    /\ Done(r) /\ out[r].sync = "returned" /\ ItemId(req[r]) = "IT2"
    /\ Len(log[r]) >= 4
    /\ log[r][3].call = "fetchAccounts" /\ log[r][3].res = "ok"
    /\ log[r][4].call = "fetchIdentityByItemId"

\* C25: transactions/created picks its targets by precedence: with an
\* accountId it fetches the transactions of that account and never lists
\* the accounts of the item; without accountId and with an itemId it lists
\* the accounts of the item and fetches the transactions of each; with no
\* or an empty transactionIds list it upserts every transaction it
\* fetched; with neither identifier it makes no call and writes nothing
C25_TargetPrecedence ==
  \A r \in Slots :
    (out[r].dispatched /\ req[r].event = "transactions/created" /\ creds) =>
      LET l == log[r]
          rq == req[r]
          fetched == { a \in {"AC1", "AC2"} :
                         Answered(r, "fetchAllTransactions", a, "ok") }
      IN /\ rq.accountId # None =>
              /\ ~CalledAny(r, "fetchAccounts")
              /\ \A k \in 1..Len(l) :
                   /\ l[k].call \in {"fetchAllTransactions", "upsertTransaction"}
                   /\ l[k].call = "fetchAllTransactions" =>
                        k = 1 /\ l[k].arg = rq.accountId
              /\ Over(r) => Len(l) >= 1
         /\ (rq.accountId = None /\ rq.itemId # None) =>
              /\ Len(l) >= 1 =>
                   l[1].call = "fetchAccounts" /\ l[1].arg = rq.itemId
              /\ (Over(r) /\ Answered(r, "fetchAccounts", rq.itemId, "ok")) =>
                   \A a \in Range(ProviderAccounts(rq.itemId)) :
                     Called(r, "fetchAllTransactions", a)
              /\ Over(r) => Len(l) >= 1
         /\ (Over(r) /\ Clean(r) /\ ~HasIds(rq)) =>
              \A a \in fetched : \A t \in Range(ProviderTransactions(a)) :
                /\ Answered(r, "upsertTransaction", t, "ok")
                /\ \E row \in BagToSet(store["transactions"]) :
                     row.id = t /\ row.parent = a
         /\ (rq.accountId = None /\ rq.itemId = None) =>
              /\ l = << >>
              /\ store = start[r].store
              /\ Over(r)

\* transactions/created with accountId AC2 and no itemId and no list:
\* one fetch, for AC2, and T3 upserted under AC2
C25_Witness ==
  \E r \in Slots :
    /\ Done(r) /\ req[r].event = "transactions/created"
    /\ req[r].accountId = "AC2" /\ req[r].itemId = None
    /\ req[r].transactionIds = NoIds
    /\ Len(log[r]) = 2 /\ Clean(r)
    /\ log[r][1].call = "fetchAllTransactions" /\ log[r][1].arg = "AC2"
    /\ log[r][2].call = "upsertTransaction" /\ log[r][2].arg = "T3"

\* transactions/created with itemId IT1 and an empty list: the accounts of
\* IT1 listed, then T1, T2 and T3 upserted
C25_WitnessItem ==
  \E r \in Slots :
    /\ Done(r) /\ req[r].event = "transactions/created"
    /\ req[r].accountId = None /\ req[r].itemId = "IT1"
    /\ req[r].transactionIds = Ids(<< >>)
    /\ Len(log[r]) = 6 /\ Clean(r)
    /\ log[r][1].call = "fetchAccounts"
    /\ {"T1", "T2", "T3"} \subseteq Keys(store["transactions"])

C27_InvestmentTransactionsFetched ==
  \A r \in Slots :
    (out[r].sync = "returned" /\ Over(r)) =>
      \A i \in Range(ProviderInvestments(ItemId(req[r]))) :
        Answered(r, "upsertInvestment", i, "ok") =>
          \E k \in 1..Len(log[r]) :
            /\ log[r][k].call = "fetchInvestmentTransactions"
            /\ log[r][k].arg = i
            /\ k > FirstAt(r, "upsertInvestment")

\* the identity rows stored under an item, copies counted
IdentityRowsOf(item) ==
  LET rows == { x \in DOMAIN store["identitiess"] : x.parent = item }
      RECURSIVE Sum(_)
      Sum(S) == IF S = {} THEN 0
                ELSE LET x == CHOOSE y \in S : TRUE
                     IN store["identitiess"][x] + Sum(S \ {x})
  IN Sum(rows)

C29_ClientIsSingleton ==
  LET calls == client.calls
  IN /\ creds =>
          /\ client.built = (IF calls = << >> THEN 0 ELSE 1)
          /\ \A k \in 1..Len(calls) :
               /\ ~calls[k].threw
               /\ calls[k].instance = calls[1].instance
               /\ calls[k].instance = client.instance
               /\ calls[k].instance # 0
     /\ ~creds =>
          /\ client.built = 0
          /\ client.instance = 0
          /\ \A k \in 1..Len(calls) : calls[k].threw

\* three calls from three call sites were handed the one instance
C29_Witness ==
  /\ creds /\ Len(client.calls) = 3 /\ client.built = 1
  /\ client.calls[1].site = "handleItemEvent"
  /\ client.calls[2].site = "syncItemData"
  /\ client.calls[3].site = "handleTransactionsCreated"
  /\ client.calls[3].instance = client.calls[1].instance

\* with the credentials absent two calls threw
C29_WitnessConfigError ==
  /\ ~creds /\ Len(client.calls) >= 2
  /\ client.calls[1].threw /\ client.calls[2].threw
  /\ client.built = 0

\* the provider fetches
ProviderFetches ==
  { "fetchItem", "fetchAccounts", "fetchAllTransactions", "fetchCreditCardBills",
    "fetchIdentityByItemId", "fetchInvestments", "fetchLoans" }

\* C30: nothing is retried: while one event is handled, no provider fetch
\* is issued twice for the same item or account, whether it failed or not
C30_NoFetchTwice ==
  \A r \in Slots :
    \A k, j \in 1..Len(log[r]) :
      ( /\ log[r][k].call \in ProviderFetches
        /\ log[r][k].call = log[r][j].call
        /\ log[r][k].arg = log[r][j].arg ) => k = j

\* the identity fetch of the pass for IT1 failed, was not repeated, and the
\* pass went on to its end
C30_Witness ==
  \E r \in Slots :
    /\ Done(r) /\ out[r].sync = "returned" /\ ItemId(req[r]) = "IT1"
    /\ Answered(r, "fetchIdentityByItemId", "IT1", "err")
    /\ Cardinality({ k \in 1..Len(log[r]) :
                       log[r][k].call = "fetchIdentityByItemId" }) = 1
    /\ CalledAny(r, "fetchLoans")

\* C31: every request that arrived is eventually answered, and every sync
\* pass that started eventually ends, given that every awaited call
\* settles
C31_EveryRequestAnswered ==
  \A r \in Slots :
    /\ (pc[r].at # "idle") ~> (pc[r].at = "done" /\ Len(resp[r]) = 1)
    /\ (out[r].sync = "running") ~> (out[r].sync \in {"returned", "raised"})

\* a sync pass for IT1 is under way after one of its calls failed, and no
\* answer has been sent yet
C31_Witness ==
  \E r \in Slots :
    /\ out[r].sync = "running" /\ ItemId(req[r]) = "IT1"
    /\ pc[r].at = "fetchLoans"
    /\ ~Clean(r)
    /\ resp[r] = << >>

\* the fetch or the upsert of the item failed in invocation r
ItemCallFailed(r) ==
  \E k \in 1..Len(log[r]) :
    log[r][k].call \in {"fetchItem", "upsertItem"} /\ log[r][k].res # "ok"

\* C32: when the item fetch or the item upsert fails on item/created,
\* item/updated or item/login_succeeded, the failed call is the last call
\* of the event: no sync pass starts, nothing is fetched or written for
\* accounts, transactions, bills, identity, investments or loans, the
\* handler raises and the dispatcher absorbs the error
C32_ItemFailureStopsEvent ==
  \A r \in Slots :
    (out[r].dispatched /\ SyncsAfterUpsert(req[r].event) /\ ItemCallFailed(r)) =>
      /\ out[r].sync = NoOut.sync
      /\ Len(log[r]) <= 2
      /\ \A k \in 1..Len(log[r]) : log[r][k].call \in {"fetchItem", "upsertItem"}
      /\ log[r][Len(log[r])].res # "ok"
      /\ store = start[r].store \/ cfg.overlap > 1
      /\ Over(r)
      /\ out[r].handler = "raised"
      /\ out[r].proc = "returned"
      /\ Done(r) => resp[r] = <<Received(req[r])>>

\* the upsert of IT1 failed on item/updated: two calls, no pass, answer 200
C32_Witness ==
  \E r \in Slots :
    /\ Done(r) /\ req[r].event = "item/updated" /\ ItemId(req[r]) = "IT1"
    /\ Len(log[r]) = 2
    /\ Answered(r, "fetchItem", "IT1", "ok")
    /\ Answered(r, "upsertItem", "IT1", "err")
    /\ out[r].handler = "raised" /\ out[r].sync = NoOut.sync
    /\ resp[r] = <<Received(req[r])>>

\* no invocation is under way
Quiet == \A r \in Slots : pc[r].at \in {"idle", "done"}

FetchOrder(a, t) ==
  LET list == ProviderTransactions(a)
  IN IF \E n \in 1..Len(list) : list[n] = t
     THEN CHOOSE n \in 1..Len(list) : list[n] = t
     ELSE 0

\* the accounts of the item of r that follow account a in the list fetched
AccountsAfter(r, a) ==
  LET list == ProviderAccounts(ItemId(req[r]))
  IN { list[n] : n \in { m \in 1..Len(list) :
                           \E i \in 1..(m - 1) : list[i] = a } }

\* C35: in a sync pass, when the upsert of a transaction of an account
\* fails, the transactions fetched before it were upserted and are stored
\* under the account, no later transaction of the account is attempted, the
\* next call is the bill fetch of the account when it is a credit account,
\* and the transactions of every following account are fetched before the
\* pass ends
C35_TransactionFailureSkipsRest ==
  \A r \in Slots : \A a \in Range(ProviderAccounts(ItemId(req[r]))) :
    \A k \in 1..Len(log[r]) :
      LET e == log[r][k]
          list == ProviderTransactions(a)
          n == FetchOrder(a, e.arg)
      IN ( /\ InSync(r)
           /\ e.call = "upsertTransaction" /\ e.res # "ok" /\ n > 0 )
         => /\ \A m \in 1..(n - 1) :
                 /\ \E j \in 1..(k - 1) :
                      log[r][j] = [e EXCEPT !.arg = list[m], !.res = "ok"]
                 /\ \E row \in BagToSet(store["transactions"]) :
                      row.id = list[m] /\ row.parent = a
            /\ \A m \in (n + 1)..Len(list) :
                 ~Called(r, "upsertTransaction", list[m])
            /\ (k < Len(log[r]) /\ AccountType(a) = "CREDIT")
                 => ( log[r][k + 1].call = "fetchCreditCardBills"
                      /\ log[r][k + 1].arg = a )
            /\ Over(r) => \A b \in AccountsAfter(r, a) :
                            Called(r, "fetchAllTransactions", b)

C35_Witness ==
  \E r \in Slots :
    /\ Done(r) /\ out[r].sync = "returned"
    /\ Answered(r, "upsertTransaction", "T1", "err")
    /\ ~Called(r, "upsertTransaction", "T2")
    /\ Called(r, "fetchCreditCardBills", "AC1")
    /\ Answered(r, "upsertTransaction", "T3", "ok")

\* the status the endpoint may answer a request with
StatusOf(rq) ==
  IF rq.method = "OPTIONS" THEN {200}
  ELSE IF rq.method # "POST" THEN {405}
  ELSE IF Malformed(rq) THEN {400}
  ELSE {200, 500}

\* C36: no request gets a second response, a request the endpoint has
\* finished with has got exactly one, and its status is the one of the path
\* taken: 200 for OPTIONS, 405 for another method than POST, 400 for a
\* malformed body, 200 for a processed event whether or not its handler
\* raised, 500 when writing the response failed before anything was sent
C36_ExactlyOneResponse ==
  \A r \in Slots :
    /\ Len(resp[r]) <= 1
    /\ Done(r) => Len(resp[r]) = 1
    /\ \A k \in 1..Len(resp[r]) : resp[r][k].status \in StatusOf(req[r])
    /\ (Len(resp[r]) = 1 /\ resp[r][1].status = 500) => out[r].dispatched

C36_Witness ==
  \E r \in Slots :
    /\ Done(r) /\ out[r].dispatched
    /\ resp[r] = <<ErrorResponse(500)>>
    /\ Answered(r, "fetchItem", "IT1", "err")

C36_WitnessAnswered ==
  \E r \in Slots :
    /\ Done(r) /\ out[r].dispatched /\ ~Clean(r)
    /\ resp[r] = <<Received(req[r])>>

\* the calls that are made for an item
ItemCalls ==
  { "fetchItem", "upsertItem", "deleteItem", "fetchAccounts",
    "upsertMultipleAccounts", "fetchIdentityByItemId", "fetchInvestments",
    "fetchLoans" }

\* C37: a handler of an item event works on payload.itemId and, when that
\* is absent, on payload.id: its first call is made for that item and so is
\* every item call; when both are absent the handler returns without
\* raising, makes no call at all and leaves the store as it was
C37_ItemIdFallsBackToId ==
  \A r \in Slots :
    (out[r].dispatched /\ req[r].event \in ItemTags) =>
      LET wanted == IF req[r].itemId # None THEN req[r].itemId ELSE req[r].id
      IN /\ \A k \in 1..Len(log[r]) :
              log[r][k].call \in ItemCalls => log[r][k].arg = wanted
         /\ (Over(r) /\ wanted # None /\ (creds \/ req[r].event = "item/deleted"))
              => (log[r] # << >> /\ log[r][1].arg = wanted)
         /\ (Over(r) /\ wanted = None)
              => /\ log[r] = << >>
                 /\ out[r].handler = "returned"
                 /\ store = start[r].store

C37_Witness ==
  \E r \in Slots :
    /\ Done(r) /\ out[r].dispatched
    /\ req[r].event = "item/created"
    /\ req[r].itemId = None /\ req[r].id = "IT2"
    /\ Answered(r, "fetchItem", "IT2", "ok")
    /\ Answered(r, "upsertItem", "IT2", "ok")

C37_WitnessNoId ==
  \E r \in Slots :
    /\ Done(r) /\ out[r].dispatched /\ creds
    /\ req[r].event \in {"item/updated", "item/error", "item/deleted"}
    /\ req[r].itemId = None /\ req[r].id = None
    /\ log[r] = << >>

====
